---- MODULE Spec2Model ----
(***************************************************************************)
(* Model of supabase/migrations/20250408_transaction_functions.sql:        *)
(* the stored procedure create_booking_with_wallet_update and the three    *)
(* wrappers begin_transaction / commit_transaction / rollback_transaction. *)
(*                                                                         *)
(* Database semantics.  The migration sets no isolation level and takes no *)
(* explicit lock (no SELECT ... FOR UPDATE, no LOCK), so every invocation  *)
(* runs under PostgreSQL's default, READ COMMITTED, as one statement in    *)
(* its own transaction:                                                    *)
(*   - a SELECT sees the rows committed when it runs;                      *)
(*   - INSERT and UPDATE are pending (invisible to other sessions) until   *)
(*     the invocation returns, and are discarded when it raises;           *)
(*   - UPDATE takes the row lock, held until the invocation ends; a second *)
(*     UPDATE of the same row waits and then works on the committed row.   *)
(* DECIMAL amounts are modelled as integers (the smallest currency unit).  *)
(*                                                                         *)
(* The module also models the HousingDetail screen of                      *)
(* app/(tabs)/housing/[id].tsx: its state (loading, error, listing), the   *)
(* id parameter of the route and the loadListing calls in flight.          *)
(***************************************************************************)
EXTENDS Integers, Sequences, FiniteSets, TLC

\* Bounds of the model.
MaxBookings == 2
MaxAmount == 2
MaxBalance == 2
MaxLoads == 3

\* INTERVAL '90 days' of the claim's expiry_date, as days after NOW().
ClaimExpiryDays == 90

\* The database sessions (connections) that invoke the procedure, and the one
\* that runs the sequential script.
Sessions == {"s1", "s2"}
Client == "s1"
WalletUsers == {"u1"}
Users == WalletUsers \cup {"u2"}
WalletCategories == {"core", "capital"}
Categories == WalletCategories \cup {"transport"}
Amounts == (0 - 1)..MaxAmount
Services == {"s1"}
Schedules == {"t1"}
TotalPrices == {MaxAmount}
GapPayments == {0}
Notes == {"n1"}

\* SQL NULL, and a non-null value, of a nullable scalar or record.
NULL == <<>>
Some(x) == <<x>>
Val(o) == o[1]

VARIABLES
  wallets,            \* table wallets: user_id -> [total_balance, category_breakdown]
  service_bookings,   \* table service_bookings: the committed rows, in commit order
  claims,             \* table claims: the committed rows, in commit order
  pc,                 \* per session: the statement the invocation is at
  args,               \* per session: the arguments p_* of the running invocation
  v_wallet_record,    \* per session: DECLARE v_wallet_record RECORD
  v_category_balance, \* per session: DECLARE v_category_balance DECIMAL
  v_booking_id,       \* per session: DECLARE v_booking_id UUID
  pending,            \* per session: the uncommitted writes of the invocation
  outcome,            \* per session: how its last invocation ended (returned, or the error)
  initialWallets,     \* history: the wallets table of the initial state
  script              \* the sequential client's begin ... commit/rollback script

\* The HousingDetail screen.
VARIABLES
  params_id,          \* const { id } = useLocalSearchParams(): "" before the screen mounts
  loading,            \* const [loading, setLoading] = useState(true)
  error,              \* const [error, setError] = useState<string | null>(null)
  listing,            \* const [listing, setListing] = useState<HousingListing | null>(null)
  loads               \* the loadListing calls so far, in call order: the id each
                      \* captured and whether it still awaits its response

housing == <<params_id, loading, error, listing, loads>>

sql == <<wallets, service_bookings, claims, pc, args, v_wallet_record,
         v_category_balance, v_booking_id, pending, outcome, initialWallets,
         script>>

vars == <<wallets, service_bookings, claims, pc, args, v_wallet_record,
          v_category_balance, v_booking_id, pending, outcome, initialWallets,
          script, params_id, loading, error, listing, loads>>

\* The stored (committed) state of the three tables.
db == <<wallets, service_bookings, claims>>

Args ==
  [p_user_id : Users, p_service_id : Services, p_scheduled_at : Schedules,
   p_total_price : TotalPrices, p_ndis_covered_amount : Amounts,
   p_gap_payment : GapPayments, p_notes : Notes, p_category : Categories]

NoPending == [bookings |-> <<>>, wallet |-> NULL, claims |-> <<>>]
NoOutcome == "none"

RECURSIVE SumAmounts(_)
SumAmounts(amounts) ==
  IF amounts = <<>> THEN 0 ELSE Head(amounts) + SumAmounts(Tail(amounts))

RECURSIVE SumOver(_, _)
SumOver(f, keys) ==
  IF keys = {} THEN 0
  ELSE LET k == CHOOSE x \in keys : TRUE IN f[k] + SumOver(f, keys \ {k})

\* category_breakdown -> p_category: the value under the key, NULL if there is none
\* (or if the breakdown itself is NULL, as it is in a record no row was selected into).
JsonGet(breakdown, key) ==
  IF breakdown = NULL THEN NULL
  ELSE IF key \in DOMAIN Val(breakdown) THEN Some(Val(breakdown)[key]) ELSE NULL

\* Faulty variant of jsonb_set: builds a fresh object holding the one key.
jsonb_build_object(target, key, value) == [k \in {key} |-> value]

\* jsonb_set(target, ARRAY[key], value): sets the key, creating it when missing.
jsonb_set(target, key, value) ==
  [k \in DOMAIN target \cup {key} |-> IF k = key THEN value ELSE target[k]]

\* SELECT * INTO v_wallet_record FROM wallets WHERE user_id = p_user_id
SelectWallet(user) ==
  IF user \in DOMAIN wallets THEN Some(wallets[user]) ELSE NULL

\* Faulty variant of NotFound: the lookup's result is never tested.
NotFoundUnchecked(record) == FALSE

\* IF NOT FOUND
NotFound(record) == record = NULL

\* v_wallet_record.category_breakdown
BreakdownOf(record) ==
  IF record = NULL THEN NULL ELSE Some(Val(record).category_breakdown)

\* Faulty variant of InsufficientFunds: only the missing category is refused.
InsufficientFundsNullOnly(balance, amount) == balance = NULL

\* IF v_category_balance IS NULL OR v_category_balance < p_ndis_covered_amount
InsufficientFunds(balance, amount) ==
  IF balance = NULL THEN TRUE ELSE Val(balance) < amount

\* The ids in use: the id generated for a new booking is none of them.
UsedIds ==
  {service_bookings[i].id : i \in DOMAIN service_bookings}
    \cup {v_booking_id[s] : s \in Sessions}

\* RETURNING id INTO v_booking_id: the id the table's default generated.
NewId == CHOOSE i \in 1..(Cardinality(UsedIds) + 1) : i \notin UsedIds

\* The row of INSERT INTO service_bookings.
BookingRow(id, a) ==
  [id |-> id, user_id |-> a.p_user_id, service_id |-> a.p_service_id,
   scheduled_at |-> a.p_scheduled_at, total_price |-> a.p_total_price,
   ndis_covered_amount |-> a.p_ndis_covered_amount,
   gap_payment |-> a.p_gap_payment, notes |-> a.p_notes, status |-> "pending"]

\* Faulty variant of WalletAfterUpdate: only the category is debited.
WalletAfterUpdateOfCategoryOnly(row, amount, category, balance) ==
  [total_balance |-> row.total_balance,
   category_breakdown |->
     jsonb_set(row.category_breakdown, category, balance - amount)]

\* The SET clause of UPDATE wallets, applied to the row the UPDATE works on.
WalletAfterUpdate(row, amount, category, balance) ==
  [total_balance |-> row.total_balance - amount,
   category_breakdown |->
     jsonb_set(row.category_breakdown, category, balance - amount)]

\* Faulty variant of ClaimRow: the claim is filed for the booking's total price.
ClaimRowOfTotalPrice(booking_id, a) ==
  [user_id |-> a.p_user_id, booking_id |-> booking_id,
   amount |-> a.p_total_price, status |-> "pending",
   category |-> a.p_category, expiry_date |-> ClaimExpiryDays]

\* The row of INSERT INTO claims.
ClaimRow(booking_id, a) ==
  [user_id |-> a.p_user_id, booking_id |-> booking_id,
   amount |-> a.p_ndis_covered_amount, status |-> "pending",
   category |-> a.p_category, expiry_date |-> ClaimExpiryDays]

\* The row lock of a wallet row is held by a session whose UPDATE is pending.
RowLockFree(s) ==
  \A o \in Sessions \ {s} :
    IF pending[o].wallet = NULL THEN TRUE
    ELSE Val(args[o]).p_user_id # Val(args[s]).p_user_id

InFlight == {s \in Sessions : pc[s] # "idle"}

\* The category breakdowns a wallet may start with, and the one of the wallet
\* the concurrent sessions start from.
InitialBreakdowns == [WalletCategories -> 0..MaxBalance]
FullBreakdown == [c \in WalletCategories |-> MaxBalance]

\* The initial state: the wallet holds one of the breakdowns, total_balance is
\* the sum of its categories, there is no booking or claim and no session runs.
InitWith(breakdowns) ==
  /\ \E b \in breakdowns :
       wallets = [u \in WalletUsers |->
                    [total_balance |-> SumOver(b, WalletCategories),
                     category_breakdown |-> b]]
  /\ initialWallets = wallets
  /\ service_bookings = <<>>
  /\ claims = <<>>
  /\ pc = [s \in Sessions |-> "idle"]
  /\ args = [s \in Sessions |-> NULL]
  /\ v_wallet_record = [s \in Sessions |-> NULL]
  /\ v_category_balance = [s \in Sessions |-> NULL]
  /\ v_booking_id = [s \in Sessions |-> 0]
  /\ pending = [s \in Sessions |-> NoPending]
  /\ outcome = [s \in Sessions |-> NoOutcome]
  /\ script = [phase |-> "outside", atBegin |-> NULL]
  /\ params_id = ""
  /\ loading = TRUE
  /\ error = NULL
  /\ listing = NULL
  /\ loads = <<>>

Init == InitWith({FullBreakdown})
InitSeq == InitWith(InitialBreakdowns)

\* The invocation's frame is gone once it has ended.
EndFrame(s) ==
  /\ pc' = [pc EXCEPT ![s] = "idle"]
  /\ args' = [args EXCEPT ![s] = NULL]
  /\ v_wallet_record' = [v_wallet_record EXCEPT ![s] = NULL]
  /\ v_category_balance' = [v_category_balance EXCEPT ![s] = NULL]
  /\ v_booking_id' = [v_booking_id EXCEPT ![s] = 0]
  /\ pending' = [pending EXCEPT ![s] = NoPending]

\* Faulty variant of Raise: the error ends the invocation but the booking row it had
\* inserted stays.
RaiseKeepingBooking(s, message) ==
  /\ EndFrame(s)
  /\ outcome' = [outcome EXCEPT ![s] = message]
  /\ service_bookings' = service_bookings \o pending[s].bookings
  /\ UNCHANGED <<wallets, claims>>

\* RAISE EXCEPTION (or a statement's error): the invocation's transaction aborts,
\* its pending writes are discarded and the error goes to the caller.
Raise(s, message) ==
  /\ EndFrame(s)
  /\ outcome' = [outcome EXCEPT ![s] = message]
  /\ UNCHANGED <<wallets, service_bookings, claims>>

\* A session calls create_booking_with_wallet_update(a).
Call(s, a) ==
  /\ pc[s] = "idle"
  /\ Len(service_bookings) + Cardinality(InFlight) < MaxBookings
  /\ pc' = [pc EXCEPT ![s] = "select"]
  /\ args' = [args EXCEPT ![s] = Some(a)]
  /\ outcome' = [outcome EXCEPT ![s] = NoOutcome]
  /\ UNCHANGED <<wallets, service_bookings, claims, v_wallet_record,
                 v_category_balance, v_booking_id, pending, initialWallets,
                 script>>
  /\ UNCHANGED housing

\* Get wallet data; IF NOT FOUND THEN RAISE 'Wallet not found for user'.
GetWallet(s) ==
  /\ pc[s] = "select"
  /\ LET record == SelectWallet(Val(args[s]).p_user_id) IN
       IF NotFound(record)
       THEN Raise(s, "WalletNotFound")
       ELSE /\ v_wallet_record' = [v_wallet_record EXCEPT ![s] = record]
            /\ pc' = [pc EXCEPT ![s] = "check"]
            /\ UNCHANGED <<wallets, service_bookings, claims, args,
                           v_category_balance, v_booking_id, pending, outcome>>
  /\ UNCHANGED <<initialWallets, script>>
  /\ UNCHANGED housing

\* Check category balance; RAISE 'Insufficient funds in % category'.
CheckBalance(s) ==
  /\ pc[s] = "check"
  /\ LET balance == JsonGet(BreakdownOf(v_wallet_record[s]),
                            Val(args[s]).p_category) IN
       IF InsufficientFunds(balance, Val(args[s]).p_ndis_covered_amount)
       THEN Raise(s, "InsufficientFunds")
       ELSE /\ v_category_balance' = [v_category_balance EXCEPT ![s] = balance]
            /\ pc' = [pc EXCEPT ![s] = "insert_booking"]
            /\ UNCHANGED <<wallets, service_bookings, claims, args,
                           v_wallet_record, v_booking_id, pending, outcome>>
  /\ UNCHANGED <<initialWallets, script>>
  /\ UNCHANGED housing

\* Create booking: INSERT INTO service_bookings ... RETURNING id INTO v_booking_id.
InsertBooking(s) ==
  /\ pc[s] = "insert_booking"
  /\ v_booking_id' = [v_booking_id EXCEPT ![s] = NewId]
  /\ pending' = [pending EXCEPT ![s].bookings =
                   Append(@, BookingRow(NewId, Val(args[s])))]
  /\ pc' = [pc EXCEPT ![s] = "update_wallet"]
  /\ UNCHANGED <<wallets, service_bookings, claims, args, v_wallet_record,
                 v_category_balance, outcome, initialWallets, script>>
  /\ UNCHANGED housing

\* Update wallet balance: UPDATE wallets SET ... WHERE user_id = p_user_id.
UpdateWallet(s) ==
  /\ pc[s] = "update_wallet"
  /\ RowLockFree(s)
  /\ LET a == Val(args[s]) IN
       pending' = [pending EXCEPT ![s].wallet =
                     Some(WalletAfterUpdate(wallets[a.p_user_id],
                                            a.p_ndis_covered_amount,
                                            a.p_category,
                                            Val(v_category_balance[s])))]
  /\ pc' = [pc EXCEPT ![s] = "insert_claim"]
  /\ UNCHANGED <<wallets, service_bookings, claims, args, v_wallet_record,
                 v_category_balance, v_booking_id, outcome, initialWallets,
                 script>>
  /\ UNCHANGED housing

\* Create claim record: INSERT INTO claims.
InsertClaim(s) ==
  /\ pc[s] = "insert_claim"
  /\ pending' = [pending EXCEPT ![s].claims =
                   Append(@, ClaimRow(v_booking_id[s], Val(args[s])))]
  /\ pc' = [pc EXCEPT ![s] = "return"]
  /\ UNCHANGED <<wallets, service_bookings, claims, args, v_wallet_record,
                 v_category_balance, v_booking_id, outcome, initialWallets,
                 script>>
  /\ UNCHANGED housing

\* Faulty variant of Return: a booking equal to a committed one (but for its id) is not
\* written again; the committed booking's id is returned.
ReturnDeduplicated(s) ==
  LET same == {i \in DOMAIN service_bookings :
                 [service_bookings[i] EXCEPT !.id = 0] =
                   [pending[s].bookings[1] EXCEPT !.id = 0]}
  IN /\ pc[s] = "return"
     /\ IF same = {}
        THEN /\ service_bookings' = service_bookings \o pending[s].bookings
             /\ claims' = claims \o pending[s].claims
             /\ wallets' = [wallets EXCEPT ![Val(args[s]).p_user_id] =
                              Val(pending[s].wallet)]
        ELSE UNCHANGED <<wallets, service_bookings, claims>>
     /\ outcome' = [outcome EXCEPT ![s] = "returned"]
     /\ EndFrame(s)
     /\ UNCHANGED <<initialWallets, script>>
     /\ UNCHANGED housing

\* RETURN v_booking_id: the invocation's transaction commits its pending writes.
Return(s) ==
  /\ pc[s] = "return"
  /\ service_bookings' = service_bookings \o pending[s].bookings
  /\ claims' = claims \o pending[s].claims
  /\ wallets' = IF pending[s].wallet = NULL THEN wallets
                ELSE [wallets EXCEPT ![Val(args[s]).p_user_id] =
                        Val(pending[s].wallet)]
  /\ outcome' = [outcome EXCEPT ![s] = "returned"]
  /\ EndFrame(s)
  /\ UNCHANGED <<initialWallets, script>>
  /\ UNCHANGED housing

\* The error of a write statement the database rejects, by the statement.
RejectedAt(statement) ==
  CASE statement = "insert_booking" -> "BookingRejected"
    [] statement = "update_wallet" -> "UpdateRejected"
    [] statement = "insert_claim" -> "ClaimRejected"

\* One of the three write statements is rejected by the table it writes (a
\* constraint of the table, a missing service): the error aborts the invocation.
StatementRejected(s) ==
  /\ pc[s] \in {"insert_booking", "update_wallet", "insert_claim"}
  /\ IF pc[s] = "update_wallet" THEN RowLockFree(s) ELSE TRUE
  /\ Raise(s, RejectedAt(pc[s]))
  /\ UNCHANGED <<initialWallets, script>>
  /\ UNCHANGED housing

\* begin_transaction(): the BEGIN inside the function body opens a block of the
\* function, not a transaction; nothing stays open when the call returns.
begin_transaction ==
  /\ script.phase # "inside"
  /\ InFlight = {}
  /\ script' = [phase |-> "inside", atBegin |-> Some(db)]
  /\ UNCHANGED <<wallets, service_bookings, claims, pc, args, v_wallet_record,
                 v_category_balance, v_booking_id, pending, outcome,
                 initialWallets>>
  /\ UNCHANGED housing

\* commit_transaction(): a function cannot end the transaction that runs it;
\* the stored state is what the calls before it already committed.
commit_transaction ==
  /\ script.phase = "inside"
  /\ InFlight = {}
  /\ script' = [phase |-> "committed", atBegin |-> script.atBegin]
  /\ UNCHANGED <<wallets, service_bookings, claims, pc, args, v_wallet_record,
                 v_category_balance, v_booking_id, pending, outcome,
                 initialWallets>>
  /\ UNCHANGED housing

\* rollback_transaction(): likewise; no write of an earlier call is undone.
rollback_transaction ==
  /\ script.phase = "inside"
  /\ InFlight = {}
  /\ script' = [phase |-> "rolledback", atBegin |-> script.atBegin]
  /\ UNCHANGED <<wallets, service_bookings, claims, pc, args, v_wallet_record,
                 v_category_balance, v_booking_id, pending, outcome,
                 initialWallets>>
  /\ UNCHANGED housing

\* Concurrent sessions, each invoking the procedure any number of times.
Next ==
  \E s \in Sessions :
    \/ \E a \in Args : Call(s, a)
    \/ GetWallet(s)
    \/ CheckBalance(s)
    \/ InsertBooking(s)
    \/ UpdateWallet(s)
    \/ InsertClaim(s)
    \/ Return(s)
    \/ StatementRejected(s)

Spec == Init /\ [][Next]_vars

\* One client running its calls one after another, the wrappers among them.
NextSeq ==
  \/ \E a \in Args : Call(Client, a)
  \/ GetWallet(Client)
  \/ CheckBalance(Client)
  \/ InsertBooking(Client)
  \/ UpdateWallet(Client)
  \/ InsertClaim(Client)
  \/ Return(Client)
  \/ StatementRejected(Client)
  \/ begin_transaction
  \/ commit_transaction
  \/ rollback_transaction

SpecSeq == InitSeq /\ [][NextSeq]_vars

(***************************************************************************)
(* The HousingDetail screen.                                               *)
(***************************************************************************)

\* The ids the route parameter takes.
ListingIds == {"h1", "h2", "h3"}

\* The row of housing_listings that .eq('id', i).single() selects.
Fetched(i) == [id |-> i]

\* The messages setError stores: e.message of an Error, which may be the
\* empty string, or the fallback text.
ErrorMessages == {"", "request failed", "Failed to load housing listing"}

\* JavaScript truthiness of a string | null: null and "" are falsy.
Truthy(o) == IF o = NULL THEN FALSE ELSE Val(o) # ""

\* What the component renders: the loading view while loading, then the error
\* view when error is truthy or there is no listing, else the listing.
View ==
  IF loading THEN "loading"
  ELSE IF Truthy(error) THEN "error"
  ELSE IF listing = NULL THEN "error"
  ELSE "listing"

\* The loadListing calls that still await the response of their query.
Awaiting == {k \in DOMAIN loads : loads[k].status = "awaiting"}

\* loadListing up to its await: setLoading(true), and the query is sent for the
\* id of the render whose effect called it.
loadListing(i) ==
  /\ loading' = TRUE
  /\ loads' = Append(loads, [id |-> i, status |-> "awaiting"])

\* A render with the current id is committed and its effect has not run yet:
\* the effect depends on [id], and no loadListing call was made for this id
\* since the id last changed.
EffectPending ==
  IF params_id = "" THEN FALSE
  ELSE IF loads = <<>> THEN TRUE
  ELSE loads[Len(loads)].id # params_id

\* The screen mounts with id i: the first render is committed with the
\* useState initial values.  The effect runs after the commit.
Mount(i) ==
  /\ params_id = ""
  /\ params_id' = i
  /\ UNCHANGED <<loading, error, listing, loads>>
  /\ UNCHANGED sql

\* The id parameter changes on the mounted screen: the render with the new id
\* is committed with the state as it is.  React runs the effects of a commit
\* before it renders again, so no effect is pending here.
ChangeId(i) ==
  /\ params_id # ""
  /\ ~EffectPending
  /\ Len(loads) < MaxLoads
  /\ i # params_id
  /\ params_id' = i
  /\ UNCHANGED <<loading, error, listing, loads>>
  /\ UNCHANGED sql

\* The effect of the committed render runs: it calls loadListing, which closes
\* over the id of that render.  error and listing keep their values.
useEffect ==
  /\ EffectPending
  /\ loadListing(params_id)
  /\ UNCHANGED <<params_id, error, listing>>
  /\ UNCHANGED sql

\* The query of call k answers with a row: setListing(data), and the finally
\* block runs setLoading(false).  Responses arrive in any order.
LoadResolves(k) ==
  /\ k \in Awaiting
  /\ listing' = Some(Fetched(loads[k].id))
  /\ loading' = FALSE
  /\ loads' = [loads EXCEPT ![k].status = "resolved"]
  /\ UNCHANGED <<params_id, error>>
  /\ UNCHANGED sql

\* The query of call k answers with fetchError, or throws: the catch block runs
\* setError(message), and the finally block runs setLoading(false).
LoadRejects(k, message) ==
  /\ k \in Awaiting
  /\ error' = Some(message)
  /\ loading' = FALSE
  /\ loads' = [loads EXCEPT ![k].status = "rejected"]
  /\ UNCHANGED <<params_id, listing>>
  /\ UNCHANGED sql

NextHousing ==
  \/ \E i \in ListingIds : Mount(i)
  \/ \E i \in ListingIds : ChangeId(i)
  \/ useEffect
  \/ \E k \in 1..MaxLoads : LoadResolves(k)
  \/ \E k \in 1..MaxLoads, message \in ErrorMessages : LoadRejects(k, message)

SpecHousing == Init /\ [][NextHousing]_vars

(***************************************************************************)
(* Properties.                                                             *)
(***************************************************************************)

\* The balance a wallet row holds for a category, 0 when it has no such key.
BalanceOf(row, category) ==
  IF category \in DOMAIN row.category_breakdown
  THEN row.category_breakdown[category] ELSE 0

\* The sum of ndis_covered_amount over the committed bookings of a user.
BookedAmount(user) ==
  LET rows == SelectSeq(service_bookings, LAMBDA b : b.user_id = user)
  IN SumAmounts([i \in DOMAIN rows |-> rows[i].ndis_covered_amount])

\* The sum of amount over the committed claims of a user in a category: the sum
\* of ndisCoveredAmount over the invocations on that category that succeeded.
ClaimedAmount(user, category) ==
  LET rows == SelectSeq(claims,
                        LAMBDA c : c.user_id = user /\ c.category = category)
  IN SumAmounts([i \in DOMAIN rows |-> rows[i].amount])

ClaimsOf(booking_id) ==
  {k \in DOMAIN claims : claims[k].booking_id = booking_id}

\* The step in which session s returns from a successful invocation; the value
\* it returns is v_booking_id[s].
Returns(s) == pc[s] = "return" /\ pc'[s] = "idle"

\* C1: an invocation on a wallet whose balance for the named category is present
\* and >= ndisCoveredAmount passes the balance check, and when it returns
\* total_balance is the old total_balance minus ndisCoveredAmount, the named
\* category's balance is its old balance minus ndisCoveredAmount, and every other
\* key of category_breakdown is there with its old value, none added or removed.
C1_Step(s) ==
  LET a == Val(args[s])
      old == wallets[a.p_user_id]
      new == wallets'[a.p_user_id]
  IN /\ (/\ pc[s] = "check"
         /\ a.p_category \in DOMAIN old.category_breakdown
         /\ old.category_breakdown[a.p_category] >= a.p_ndis_covered_amount)
          => pc'[s] = "insert_booking"
     /\ Returns(s) =>
          /\ outcome'[s] = "returned"
          /\ new.total_balance = old.total_balance - a.p_ndis_covered_amount
          /\ DOMAIN new.category_breakdown = DOMAIN old.category_breakdown
          /\ \A k \in DOMAIN old.category_breakdown :
               new.category_breakdown[k] =
                 IF k = a.p_category
                 THEN old.category_breakdown[k] - a.p_ndis_covered_amount
                 ELSE old.category_breakdown[k]

C1_DebitsOnlyNamedCategory ==
  [][\A s \in Sessions : pc[s] # "idle" => C1_Step(s)]_vars

C1_Witness ==
  /\ outcome[Client] = "returned"
  /\ Len(claims) = 1
  /\ claims[1].category = "core"
  /\ claims[1].amount = 1
  /\ initialWallets["u1"].category_breakdown["core"] = MaxBalance
  /\ wallets["u1"] =
       [total_balance |-> MaxBalance + MaxBalance - 1,
        category_breakdown |-> [core |-> MaxBalance - 1, capital |-> MaxBalance]]

\* C2: concurrent invocations cannot overdraw a category: the sum of
\* ndisCoveredAmount over the invocations on a wallet's category that succeeded
\* never exceeds the balance the category had before them.
C2_NoOverdraw ==
  \A u \in WalletUsers : \A c \in Categories :
    ClaimedAmount(u, c) <= BalanceOf(initialWallets[u], c)

\* C3: an invocation on a wallet whose balance for the named category is below
\* ndisCoveredAmount, or that has no entry for the category, fails with the
\* insufficient-funds error, and total_balance, category_breakdown, the booking
\* rows and the claim rows are unchanged.
C3_Step(s) ==
  LET a == Val(args[s])
      breakdown == wallets[a.p_user_id].category_breakdown
  IN (/\ pc[s] = "check"
      /\ IF a.p_category \in DOMAIN breakdown
         THEN breakdown[a.p_category] < a.p_ndis_covered_amount
         ELSE TRUE)
       => /\ pc'[s] = "idle"
          /\ outcome'[s] = "InsufficientFunds"
          /\ pending[s] = NoPending
          /\ db' = db

C3_InsufficientFundsChangesNothing ==
  [][\A s \in Sessions : pc[s] = "check" => C3_Step(s)]_vars

C3_Witness ==
  /\ outcome[Client] = "InsufficientFunds"
  /\ Len(service_bookings) = 1
  /\ wallets["u1"].category_breakdown["core"] = 0

\* C4: an invocation for a user with no wallet row fails with the
\* wallet-not-found error and produces no booking row, no claim row and no wallet
\* change (committed or pending), whatever its other arguments are.
C4_Step(s) ==
  (pc[s] = "select" /\ Val(args[s]).p_user_id \notin DOMAIN wallets)
    => /\ pc'[s] = "idle"
       /\ outcome'[s] = "WalletNotFound"
       /\ pending[s] = NoPending
       /\ db' = db

C4_WalletNotFoundChangesNothing ==
  [][\A s \in Sessions : (pc[s] = "select" /\ pc'[s] # "select") => C4_Step(s)]_vars

C4_Witness ==
  \E s \in Sessions :
    /\ outcome[s] = "WalletNotFound"
    /\ Len(service_bookings) = 1

\* C5: the booking insert, the wallet debit and the claim insert are
\* all-or-nothing: in every committed state each booking row has its claim row,
\* each claim row its booking row, total_balance is the initial total_balance
\* minus the amounts of the committed bookings, and a wallet with no committed
\* booking is untouched, also after invocations that failed after their booking
\* insert or their wallet update.
C5_AllOrNothing ==
  /\ \A i \in DOMAIN service_bookings :
       Cardinality(ClaimsOf(service_bookings[i].id)) = 1
  /\ \A k \in DOMAIN claims :
       \E i \in DOMAIN service_bookings :
         service_bookings[i].id = claims[k].booking_id
  /\ Len(claims) = Len(service_bookings)
  /\ \A u \in WalletUsers :
       /\ wallets[u].total_balance =
            initialWallets[u].total_balance - BookedAmount(u)
       /\ (\A i \in DOMAIN service_bookings : service_bookings[i].user_id # u)
            => wallets[u] = initialWallets[u]

C5_Witness ==
  \E s \in Sessions :
    /\ outcome[s] = "ClaimRejected"
    /\ db = <<initialWallets, <<>>, <<>>>>

\* C6: every booking row has status 'pending' and exactly one claim row
\* referencing it, with the booking's user, amount equal to the booking's
\* ndis_covered_amount and status 'pending'; and the invocation that returns
\* adds exactly that booking, with the id it returns (v_booking_id), and exactly
\* that claim,
\* with the category it was passed.
C6_Rows ==
  \A i \in DOMAIN service_bookings :
    LET b == service_bookings[i] IN
      /\ b.status = "pending"
      /\ Cardinality(ClaimsOf(b.id)) = 1
      /\ \A k \in ClaimsOf(b.id) :
           /\ claims[k].user_id = b.user_id
           /\ claims[k].amount = b.ndis_covered_amount
           /\ claims[k].status = "pending"

C6_ReturnStep(s) ==
  LET a == Val(args[s])
      b == service_bookings'[Len(service_bookings')]
      c == claims'[Len(claims')]
  IN /\ outcome'[s] = "returned"
     /\ service_bookings' = Append(service_bookings, b)
     /\ claims' = Append(claims, c)
     /\ b = BookingRow(v_booking_id[s], a)
     /\ c.booking_id = b.id
     /\ c.user_id = a.p_user_id
     /\ c.amount = a.p_ndis_covered_amount
     /\ c.status = "pending"
     /\ c.category = a.p_category

C6_OneClaimPerBooking ==
  /\ []C6_Rows
  /\ [][/\ \A s \in Sessions : Returns(s) => C6_ReturnStep(s)
        /\ (\A s \in Sessions : ~Returns(s))
             => UNCHANGED <<service_bookings, claims>>]_vars

C6_Witness ==
  /\ Len(service_bookings) = 2
  /\ Len(claims) = 2
  /\ claims[1].category # claims[2].category
  /\ claims[1].booking_id = service_bookings[1].id
  /\ claims[2].booking_id = service_bookings[2].id
  /\ \E s \in Sessions : outcome[s] = "returned"

\* C7: total_balance equals the sum of the category balances of
\* category_breakdown after any sequence of invocations run one after another,
\* succeeded or failed, given that it did in the initial state.
C7_TotalIsSumOfCategories ==
  \A u \in WalletUsers :
    wallets[u].total_balance =
      SumOver(wallets[u].category_breakdown,
              DOMAIN wallets[u].category_breakdown)

C7_Witness ==
  /\ outcome[Client] = "InsufficientFunds"
  /\ Len(service_bookings) = 1
  /\ service_bookings[1].ndis_covered_amount = MaxAmount
  /\ wallets["u1"].total_balance = initialWallets["u1"].total_balance - MaxAmount

\* C8: the procedure is not idempotent: an invocation that returns always adds a
\* booking row, whose id (the value returned) no committed row has, and a claim row; when the two
\* committed bookings come from identical invocations they are two rows with
\* distinct ids and two claims, and total_balance and the named category are the
\* initial values minus twice ndisCoveredAmount.
IdenticalCalls(i, j) ==
  /\ [service_bookings[i] EXCEPT !.id = 0] = [service_bookings[j] EXCEPT !.id = 0]
  /\ claims[i].category = claims[j].category

C8_Rows ==
  /\ \A i, j \in DOMAIN service_bookings :
       i # j => service_bookings[i].id # service_bookings[j].id
  /\ (Len(service_bookings) = 2 /\ Len(claims) = 2 /\ IdenticalCalls(1, 2)) =>
       LET u == service_bookings[1].user_id
           amount == service_bookings[1].ndis_covered_amount
           category == claims[1].category
       IN /\ claims[1].booking_id # claims[2].booking_id
          /\ wallets[u].total_balance =
               initialWallets[u].total_balance - (amount + amount)
          /\ BalanceOf(wallets[u], category) =
               BalanceOf(initialWallets[u], category) - (amount + amount)

C8_ReturnStep(s) ==
  /\ \A i \in DOMAIN service_bookings :
       service_bookings[i].id # v_booking_id[s]
  /\ Len(service_bookings') = Len(service_bookings) + 1
  /\ Len(claims') = Len(claims) + 1

C8_NotIdempotent ==
  /\ []C8_Rows
  /\ [][\A s \in Sessions : Returns(s) => C8_ReturnStep(s)]_vars

C8_Witness ==
  /\ Len(service_bookings) = 2
  /\ Len(claims) = 2
  /\ IdenticalCalls(1, 2)
  /\ service_bookings[1].ndis_covered_amount = 1
  /\ claims[1].category = "core"
  /\ initialWallets["u1"].category_breakdown["core"] = 2
  /\ wallets["u1"].category_breakdown["core"] = 0

\* C9: after begin_transaction, rollback_transaction discards every write made
\* since, so that the stored state is the state at begin_transaction.
C9_RollbackRestores ==
  [][(script.phase = "inside" /\ script'.phase = "rolledback")
       => db' = Val(script.atBegin)]_vars

\* C10: a successful invocation never increases the wallet: in every step
\* total_balance and every category balance are at most what they were, and a
\* category balance that was non-negative stays non-negative.
C10_NeverIncreases ==
  [][\A u \in WalletUsers :
       /\ wallets'[u].total_balance <= wallets[u].total_balance
       /\ \A k \in DOMAIN wallets[u].category_breakdown :
            /\ k \in DOMAIN wallets'[u].category_breakdown
            /\ wallets'[u].category_breakdown[k] <= wallets[u].category_breakdown[k]
            /\ wallets[u].category_breakdown[k] >= 0
                 => wallets'[u].category_breakdown[k] >= 0]_vars

\* C11: on the mounted HousingDetail screen, once the effect has started the
\* load for the current id, the loading view is shown while that load is in
\* flight, and once every loadListing call has completed the screen shows the
\* outcome of the load for the current id: the listing fetched for the current
\* id if that load succeeded, and the error view only if that load failed.
C11_ShowsCurrentLoad ==
  IF params_id = "" THEN TRUE
  ELSE IF EffectPending THEN TRUE
  ELSE LET current == loads[Len(loads)]
       IN /\ (current.status = "awaiting") => (View = "loading")
          /\ (Awaiting = {}) =>
                /\ (current.status = "resolved") =>
                      (View = "listing" /\ listing = Some(Fetched(params_id)))
                /\ (View = "error") => (current.status = "rejected")

====
